---- MODULE Spec2Model ----
(***************************************************************************)
(* A model of CourseMaterialsDownloader (src/main.py): the login / session *)
(* / course loop of main, the per-course examination and gather of         *)
(* download_course_materials, and download_file as the sequence of steps   *)
(* the event loop runs atomically between two awaits, over a file system   *)
(* of directory entries and open write handles.                            *)
(***************************************************************************)
EXTENDS Naturals, Sequences, FiniteSets, TLC

VARIABLES pc, run, driver, session, mainRaised, remote, courses, cidx,
          disk, examDisk, endDisk, tasks, log, san

vars == <<pc, run, driver, session, mainRaised, remote, courses, cidx,
          disk, examDisk, endDisk, tasks, log, san>>

mainVars == <<pc, run, driver, session, mainRaised, remote, courses, cidx,
              disk, examDisk, endDisk, tasks, log>>

(***************************************************************************)
(* Bounds of the model.                                                    *)
(***************************************************************************)
\* courses the portal lists at most
MaxCourses == 2
\* rows of material the portal lists at most, all courses together
MaxRows == 2
\* chunks iter_chunked yields for one response body
MaxChunks == 2
\* length of the raw display names the sanitizer is run on
MaxNameLen == 3

Max(a, b) == IF a >= b THEN a ELSE b

(***************************************************************************)
(* File names: a name is a sequence of characters.  ".temp" stands for     *)
(* the five characters of the suffix download_file appends.                *)
(***************************************************************************)
TempSuffix == ".temp"

\* the character class of re.sub(r'[<>:"/\\|?*]', '_', name)
Illegal == {"<", ">", ":", "\"", "/", "\\", "|", "?", "*"}

\* re.sub(r'[<>:"/\\|?*]', '_', s)
ReSub(s) == [i \in 1..Len(s) |-> IF s[i] \in Illegal THEN "_" ELSE s[i]]

HexDigits == {"0", "1", "2", "3", "4", "5", "6", "7", "8", "9",
              "a", "b", "c", "d", "e", "f", "A", "B", "C", "D", "E", "F"}

\* the character a lone non-ASCII byte decodes to under errors='replace'
Replacement == "U+FFFD"

\* the ASCII characters of the escapes the model's names can spell
AsciiOf == [h \in {<<"2", "2">>, <<"2", "F">>, <<"2", "f">>} |->
              IF h = <<"2", "2">> THEN "\"" ELSE "/"]

\* one %XX escape: bytes >= 0x80 standing alone are no valid UTF-8
UnquoteByte(h1, h2) ==
    IF h1 \in {"8", "9", "a", "b", "c", "d", "e", "f", "A", "B", "C", "D", "E", "F"}
    THEN Replacement
    ELSE AsciiOf[<<h1, h2>>]

\* urllib.parse.unquote: every '%' followed by two hex digits is replaced by
\* the character of that byte; any other '%' stays as it is
RECURSIVE Unquote(_)
Unquote(s) ==
    IF s = <<>> THEN <<>>
    ELSE IF /\ s[1] = "%"
            /\ Len(s) >= 3
            /\ s[2] \in HexDigits
            /\ s[3] \in HexDigits
         THEN <<UnquoteByte(s[2], s[3])>> \o Unquote(SubSeq(s, 4, Len(s)))
         ELSE <<s[1]>> \o Unquote(Tail(s))

\* clean_file_name = unquote(re.sub(r'[<>:"/\\|?*]', '_', material['name']))
Sanitize(name) == Unquote(ReSub(name))

\* the characters the sanitizer is run on in SanSpec
SanAlphabet == {"n", ":", "/", "%", "2", "F"}

RECURSIVE StringsUpTo(_)
StringsUpTo(n) ==
    IF n = 0 THEN {<<>>}
    ELSE LET shorter == StringsUpTo(n - 1)
         IN  shorter \cup {Append(s, ch) : s \in shorter, ch \in SanAlphabet}


(***************************************************************************)
(* What the portal serves: the courses, the materials of a course page,    *)
(* and the bodies behind the urls.                                         *)
(***************************************************************************)
Digit == <<"1", "2", "3", "4">>

\* the display name of the c-th course; it holds a character of Illegal
CourseName(c) == <<"CS", ":", Digit[c]>>

\* the display names a materials table can hold (a name may stand in two
\* rows): one with an illegal character, one that is sanitized to the first's
\* sanitized name plus ".temp", and one apart
RawNames == {<<"n", ":">>, <<"n", "?", TempSuffix>>, <<"m">>}

MaterialLists == UNION {[1..k -> RawNames] : k \in 0..MaxRows}

NoUrl == <<"none", 0, 0>>

\* link.href of the j-th row of course c
MaterialUrl(c, j) == <<"url", c, j>>

\* the signed url the origin redirects url to
Location(url) == <<"loc", url[2], url[3]>>

\* the chunks of the body served at u: every second chunk is empty
Chunks(u) == [k \in 1..MaxChunks |->
                 IF k % 2 = 1 THEN <<<<u[1], u[2], u[3], k>>>> ELSE <<>>]

RECURSIVE Flatten(_)
Flatten(cs) == IF cs = <<>> THEN <<>> ELSE Head(cs) \o Flatten(Tail(cs))

\* the whole body served at u
Body(u) == Flatten(Chunks(u))

\* the content of a file that was on disk before the first run
OldData == <<<<"old", 0, 0, 0>>>>

\* a byte of a hole left by a write beyond the end of a file
Hole == <<"hole", 0, 0, 0>>

\* the statuses of a first response: a 2xx, the 302 of the origin, another
\* 3xx and an error status; line 113 tells the 302 from all others
Statuses1 == {200, 301, 302, 500}
\* the final statuses of a second response
Statuses2 == {200, 404}

(***************************************************************************)
(* The file system: disk maps each existing path to its file, a file being *)
(* its bytes and the tasks that hold it open for writing.  A handle stays  *)
(* with the file when the file is renamed, and writes through a handle of  *)
(* an unlinked file reach no path.                                         *)
(***************************************************************************)
File(d, w) == [data |-> d, writers |-> w]

EmptyDisk == [p \in {} |-> File(<<>>, {})]

\* os.path.exists(p)
Exists(d, p) == p \in DOMAIN d

Put(d, p, f) == [q \in DOMAIN d \cup {p} |-> IF q = p THEN f ELSE d[q]]

\* os.remove(p)
Remove(d, p) == [q \in DOMAIN d \ {p} |-> d[q]]

\* open(p, 'wb') by task i: creates the file or truncates the one there
OpenWB(d, p, i) ==
    Put(d, p, File(<<>>, IF Exists(d, p) THEN d[p].writers \cup {i} ELSE {i}))

WriteAt(data, off, bytes) ==
    LET padded == IF Len(data) < off
                  THEN data \o [x \in 1..(off - Len(data)) |-> Hole]
                  ELSE data
        n == Len(bytes)
    IN  [x \in 1..Max(Len(padded), off + n) |->
            IF x > off /\ x <= off + n THEN bytes[x - off] ELSE padded[x]]

\* f.write(bytes) through task i's handle, whose position is off
Write(d, i, off, bytes) ==
    [p \in DOMAIN d |->
        IF i \in d[p].writers
        THEN [d[p] EXCEPT !.data = WriteAt(@, off, bytes)]
        ELSE d[p]]

\* leaving the with-block of task i's handle
Close(d, i) == [p \in DOMAIN d |-> [d[p] EXCEPT !.writers = @ \ {i}]]

\* os.replace(src, dst), src existing
Replace(d, src, dst) == Put(Remove(d, src), dst, d[src])

\* os.path.join(course_dir, clean_course_name) under base_dir
CourseDir(c) == ReSub(CourseName(c))

\* file_path = os.path.join(course_dir, clean_file_name)
FilePath(c, raw) == <<CourseDir(c), Sanitize(raw)>>

\* temp_path = file_path + '.temp'
TempPath(p) == <<p[1], Append(p[2], TempSuffix)>>


(***************************************************************************)
(* download_file.  A task is the coroutine of one call; between two awaits *)
(* its code runs without another task running.  Besides its position the   *)
(* record keeps what the call saw: status1 and hasLoc are the status and    *)
(* the Location of the first response while the second request is in       *)
(* flight (and of a 302 without Location that ended the call), actual the  *)
(* url of the second request while the call runs, status2 the status of    *)
(* the second response, raised whether an exception was raised in the call.*)
(***************************************************************************)
NewTask(c, j, raw) ==
    [mat |-> j, path |-> FilePath(c, raw), url |-> MaterialUrl(c, j),
     pc |-> "new", actual |-> NoUrl, k |-> 0, off |-> 0, result |-> "none",
     status1 |-> 0, hasLoc |-> FALSE, status2 |-> 0, raised |-> FALSE]

\* the mutant handler: the exception leaves the call
OuterExceptReraise == "Raised"

\* lines 144-146: except Exception: log, return False
OuterExcept == "False"

\* lines 138-142: the file is closed; remove the temp file if it is there,
\* return False.  os.remove raising leaves this handler for the outer one.
InnerExcept(d, tp, rmOk) ==
    IF Exists(d, tp)
    THEN IF rmOk THEN [disk |-> Remove(d, tp), result |-> "False"]
                 ELSE [disk |-> d, result |-> OuterExcept]
    ELSE [disk |-> d, result |-> "False"]

\* the mutant choice: a 302 is followed whether or not it names a Location
ActualUrlNoCheck(url, status, hasLoc) ==
    IF status = 302 THEN Location(url) ELSE url

\* the mutant choice: any first status but 200 and 302 ends the call
ActualUrlStrict(url, status, hasLoc) ==
    IF status = 302
    THEN IF hasLoc THEN Location(url) ELSE NoUrl
    ELSE IF status = 200 THEN url ELSE NoUrl

\* lines 113-119: the url of the second request, NoUrl when there is none
ActualUrl(url, status, hasLoc) ==
    IF status = 302
    THEN IF hasLoc THEN Location(url) ELSE NoUrl
    ELSE url

\* the call of task i returns res, leaving the disk d; its position in the
\* stream and the url it read from go with its frame
Return(i, t, res, d) ==
    /\ tasks' = [tasks EXCEPT ![i] =
                    [t EXCEPT !.pc = "done", !.result = res, !.k = 0, !.off = 0,
                              !.actual = NoUrl]]
    /\ disk' = d

AllStarted == \A j \in 1..Len(tasks) : tasks[j].pc # "new"

AllDone == \A j \in 1..Len(tasks) : tasks[j].pc = "done"

taskFrame == <<pc, run, driver, session, mainRaised, remote, courses, cidx,
               examDisk, endDisk, log, san>>

\* lines 107-112: makedirs, then the first GET is sent.  The event loop
\* starts the tasks of a gather in their order.
TaskStart(i) ==
    /\ pc = "gather"
    /\ tasks[i].pc = "new"
    /\ \A j \in 1..(i - 1) : tasks[j].pc # "new"
    /\ LET t == tasks[i]
       IN  \E mkOk \in BOOLEAN :
              IF mkOk /\ session = "open"
              THEN /\ tasks' = [tasks EXCEPT ![i] = [t EXCEPT !.pc = "get1"]]
                   /\ disk' = disk
              ELSE Return(i, [t EXCEPT !.raised = TRUE], OuterExcept, disk)
    /\ UNCHANGED taskFrame

\* lines 112-122: the first response; the second GET is sent
Get1Response(i) ==
    /\ pc = "gather"
    /\ AllStarted
    /\ tasks[i].pc = "get1"
    /\ \/ Return(i, [tasks[i] EXCEPT !.raised = TRUE], OuterExcept, disk)
       \/ \E st \in Statuses1, loc \in BOOLEAN :
             /\ loc => st = 302
             /\ LET t == [tasks[i] EXCEPT !.status1 = st, !.hasLoc = loc,
                                          !.actual = ActualUrl(tasks[i].url, st, loc)]
                IN  IF t.actual = NoUrl
                    THEN Return(i, t, "False", disk)
                    ELSE /\ tasks' = [tasks EXCEPT ![i] = [t EXCEPT !.pc = "get2"]]
                         /\ disk' = disk
    /\ UNCHANGED taskFrame

\* the mutant test: every final status is taken
StatusOkAny(st) == TRUE

\* line 123: the final status the body is read for
StatusOk(st) == st = 200

\* lines 122-128: the second response; the temp file is opened
Get2Response(i) ==
    /\ pc = "gather"
    /\ tasks[i].pc = "get2"
    /\ \/ Return(i, [tasks[i] EXCEPT !.status1 = 0, !.hasLoc = FALSE,
                                      !.raised = TRUE], OuterExcept, disk)
       \/ \E st \in Statuses2, openOk \in BOOLEAN, rmOk \in BOOLEAN :
             LET t == [tasks[i] EXCEPT !.status1 = 0, !.hasLoc = FALSE,
                                      !.status2 = st]
                 tp == TempPath(t.path)
                 h == InnerExcept(disk, tp, rmOk)
             IN  IF ~StatusOk(st)
                 THEN Return(i, t, "False", disk)
                 ELSE IF openOk
                      THEN /\ tasks' = [tasks EXCEPT ![i] = [t EXCEPT !.pc = "stream"]]
                           /\ disk' = OpenWB(disk, tp, i)
                      ELSE Return(i, [t EXCEPT !.raised = TRUE], h.result, h.disk)
    /\ UNCHANGED taskFrame

\* lines 129-131: the next chunk arrives and is written unless it is empty;
\* the stream or the write raising leaves the with-block for lines 138-142
NextChunk(i) ==
    /\ pc = "gather"
    /\ tasks[i].pc = "stream"
    /\ tasks[i].k < MaxChunks
    /\ LET t == tasks[i]
           chunk == Chunks(t.actual)[t.k + 1]
       IN  \/ /\ tasks' = [tasks EXCEPT ![i] =
                             [t EXCEPT !.k = @ + 1, !.off = @ + Len(chunk)]]
              /\ disk' = IF chunk # <<>> THEN Write(disk, i, t.off, chunk) ELSE disk
           \/ \E rmOk \in BOOLEAN :
                 LET h == InnerExcept(Close(disk, i), TempPath(t.path), rmOk)
                 IN  Return(i, [t EXCEPT !.raised = TRUE], h.result, h.disk)
    /\ UNCHANGED taskFrame

\* lines 129-142: the stream ends, the file is closed and renamed to the
\* final path; os.replace raises when the temp path holds no file
StreamEnd(i) ==
    /\ pc = "gather"
    /\ tasks[i].pc = "stream"
    /\ tasks[i].k = MaxChunks
    /\ LET t == tasks[i]
           tp == TempPath(t.path)
           d == Close(disk, i)
       IN  \E ok \in BOOLEAN, rmOk \in BOOLEAN :
              IF ok /\ Exists(d, tp)
              THEN Return(i, t, "True", Replace(d, tp, t.path))
              ELSE LET h == InnerExcept(d, tp, rmOk)
                   IN  Return(i, [t EXCEPT !.raised = TRUE], h.result, h.disk)
    /\ UNCHANGED taskFrame


(***************************************************************************)
(* download_course_materials, process_course, main.                        *)
(***************************************************************************)
\* a line of the log: what it reports, and the numbers of a course report
LogLine(kind, c, success, total, skipped) ==
    [kind |-> kind, course |-> c, success |-> success, total |-> total,
     skipped |-> skipped]

\* the mutant dispatch: the existence test is dropped
DownloadTasksAll(c, mats, d) ==
    [j \in 1..Len(mats) |-> NewTask(c, j, mats[j])]

\* lines 161-169: one task for every material whose path holds no file
DownloadTasks(c, mats, d) ==
    LET rows == [j \in 1..Len(mats) |-> j]
        pending == SelectSeq(rows, LAMBDA j : ~Exists(d, FilePath(c, mats[j])))
    IN  [n \in 1..Len(pending) |-> NewTask(c, pending[n], mats[pending[n]])]

\* the mutant count: every settled task counts
SuccessCountAll(ts) == Len(ts)

\* line 173: sum(1 for r in results if r is True)
SuccessCount(ts) == Cardinality({j \in 1..Len(ts) : ts[j].result = "True"})

Init ==
    /\ pc = "start"
    /\ run = "first"
    /\ driver = "none"
    /\ session = "none"
    /\ mainRaised = FALSE
    /\ \E n \in 0..MaxCourses, mats \in MaterialLists :
          /\ n * Len(mats) <= MaxRows
          /\ remote = [n |-> n, mats |-> mats]
    /\ courses = 0
    /\ cidx = 0
    /\ \E have \in SUBSET {j \in 1..Len(remote.mats) : TRUE} :
          disk = [p \in {FilePath(c, remote.mats[j]) : c \in 1..remote.n, j \in have}
                    |-> File(OldData, {})]
    /\ examDisk = EmptyDisk
    /\ endDisk = EmptyDisk
    /\ tasks = <<>>
    /\ log = <<>>
    /\ san = [raw |-> <<>>, clean |-> <<>>, done |-> FALSE]

\* the mutant session: init_session leaves self.session as it was
ClientSessionMissing == "none"

\* lines 61-65: the aiohttp.ClientSession init_session assigns to self.session
ClientSession == "open"

\* the mutant handler: the exception of a course leaves process_course
CourseExceptPropagates == "finally"

\* lines 222-223 and 178-179: the exception of a course is logged, and the
\* for loop of line 239 goes on
CourseExcept == "loop"

\* the mutant loop: process_course is started and not awaited
LoopReadyDetached == pc \in {"loop", "gather"}

\* lines 239-240: the loop takes the next course when the awaited
\* process_course has returned
LoopReady == pc = "loop"

\* the mutant script call: the materials are read again while the gather runs
ExamineReadyDuringGather == pc \in {"sleep", "gather"}

\* lines 214-220 and 150: the sleep is over; the wait and execute_script follow
ExamineReady == pc = "sleep"

\* the mutant gather: it returns with the first task that has settled
GatherReadyAny == \E j \in 1..Len(tasks) : tasks[j].pc = "done"

\* line 172: gather(*download_tasks, return_exceptions=True) returns when
\* every task has settled
GatherReady == AllDone

\* lines 71-104 and 226-228: login_portal, and main returning without a driver
Login ==
    /\ pc = "start"
    /\ \E outcome \in {"ok", "no_driver", "failed", "failed_quit_raises"} :
          /\ driver' = CASE outcome = "ok" -> "open"
                         [] outcome = "no_driver" -> "none"
                         [] outcome = "failed" -> "quit"
                         [] OTHER -> "quit_failed"
          /\ pc' = IF outcome = "ok" THEN "logged_in" ELSE "done"
          /\ mainRaised' = (outcome = "failed_quit_raises")
          /\ log' = IF outcome = "ok" THEN log
                    ELSE Append(log, LogLine("login_error", 0, 0, 0, 0))
    /\ UNCHANGED <<run, session, remote, courses, cidx, disk, examDisk, endDisk,
                   tasks, san>>

\* lines 46-65 and 232: init_session; an exception goes to the finally block
InitSession ==
    /\ pc = "logged_in"
    /\ \E ok \in BOOLEAN :
          /\ session' = IF ok THEN ClientSession ELSE session
          /\ pc' = IF ok THEN "session_active" ELSE "finally"
          /\ mainRaised' = ~ok
    /\ UNCHANGED <<run, driver, remote, courses, cidx, disk, examDisk, endDisk,
                   tasks, log, san>>

\* lines 181-204 and 233-237: get_course_sections, {} when it fails
GetCourseSections ==
    /\ pc = "session_active"
    /\ \E ok \in BOOLEAN :
          /\ courses' = IF ok THEN remote.n ELSE 0
          /\ log' = IF ok THEN log
                    ELSE Append(log, LogLine("courses_error", 0, 0, 0, 0))
    /\ cidx' = 0
    /\ pc' = "loop"
    /\ UNCHANGED <<run, driver, session, mainRaised, remote, disk, examDisk,
                   endDisk, tasks, san>>

\* lines 239-240 and 206-214: the next course: its directory, driver.get,
\* then the sleep; an exception is caught at line 222
ProcessCourse ==
    /\ LoopReady
    /\ cidx < courses
    /\ cidx' = cidx + 1
    /\ \E ok \in BOOLEAN :
          /\ pc' = IF ok THEN "sleep" ELSE CourseExcept
          /\ log' = IF ok THEN log
                    ELSE Append(log, LogLine("course_error", cidx + 1, 0, 0, 0))
    /\ UNCHANGED <<run, driver, session, mainRaised, remote, courses, disk,
                   examDisk, endDisk, tasks, san>>

\* lines 216-220 and 148-176: the wait for the notes tab, the materials of
\* the page, the examination of every material and the creation of the tasks
Examine ==
    /\ ExamineReady
    /\ \E outcome \in {"ok", "wait_timeout", "script_error"} :
          IF outcome = "ok"
          THEN LET ts == DownloadTasks(cidx, remote.mats, disk)
                   seen == LogLine("examined", cidx, 0, Len(ts),
                                   Len(remote.mats) - Len(ts))
               IN  /\ tasks' = ts
                   /\ examDisk' = disk
                   /\ pc' = IF ts = <<>> THEN "loop" ELSE "gather"
                   /\ log' = IF ts = <<>>
                             THEN log \o <<seen, LogLine("no_new", cidx, 0, 0,
                                                         Len(remote.mats))>>
                             ELSE Append(log, seen)
          ELSE /\ pc' = CourseExcept
               /\ log' = Append(log, LogLine(IF outcome = "wait_timeout"
                                             THEN "course_error"
                                             ELSE "materials_error", cidx, 0, 0, 0))
               /\ UNCHANGED <<tasks, examDisk>>
    /\ UNCHANGED <<run, driver, session, mainRaised, remote, courses, cidx,
                   disk, endDisk, san>>

\* lines 172-174: gather returns when every task has settled
GatherDone ==
    /\ pc = "gather"
    /\ GatherReady
    /\ log' = Append(log, LogLine("summary", cidx, SuccessCount(tasks),
                                  Len(tasks), Len(remote.mats) - Len(tasks)))
    /\ tasks' = <<>>
    /\ pc' = "loop"
    /\ UNCHANGED <<run, driver, session, mainRaised, remote, courses, cidx,
                   disk, examDisk, endDisk, san>>

\* the for loop of line 239 is exhausted
LoopEnd ==
    /\ pc = "loop"
    /\ cidx = courses
    /\ pc' = "finally"
    /\ UNCHANGED <<run, driver, session, mainRaised, remote, courses, cidx,
                   disk, examDisk, endDisk, tasks, log, san>>

\* lines 243 and 67-69: close_session; when it raises, line 244 is not reached
CloseSession ==
    /\ pc = "finally"
    /\ IF session = "none"
       THEN /\ pc' = "quit"
            /\ UNCHANGED <<session, mainRaised>>
       ELSE \E ok \in BOOLEAN :
               /\ session' = IF ok THEN "closed" ELSE "close_failed"
               /\ pc' = IF ok THEN "quit" ELSE "done"
               /\ mainRaised' = (mainRaised \/ ~ok)
    /\ UNCHANGED <<run, driver, remote, courses, cidx, disk, examDisk, endDisk,
                   tasks, log, san>>

\* lines 244-245: driver.quit()
DriverQuit ==
    /\ pc = "quit"
    /\ \E ok \in BOOLEAN :
          /\ driver' = IF ok THEN "quit" ELSE "quit_failed"
          /\ mainRaised' = (mainRaised \/ ~ok)
          /\ log' = IF ok THEN Append(log, LogLine("complete", 0, 0, 0, 0)) ELSE log
    /\ pc' = "done"
    /\ UNCHANGED <<run, session, remote, courses, cidx, disk, examDisk, endDisk,
                   tasks, san>>

\* lines 246-253: the program is run again, on the disk the first run left
\* and against the same portal
Rerun ==
    /\ pc = "done"
    /\ run = "first"
    /\ run' = "second"
    /\ pc' = "start"
    /\ driver' = "none"
    /\ session' = "none"
    /\ mainRaised' = FALSE
    /\ courses' = 0
    /\ cidx' = 0
    /\ examDisk' = EmptyDisk
    /\ endDisk' = disk
    /\ log' = <<>>
    /\ UNCHANGED <<remote, disk, tasks, san>>

Next ==
    \/ Login
    \/ InitSession
    \/ GetCourseSections
    \/ ProcessCourse
    \/ Examine
    \/ \E i \in 1..Len(tasks) : TaskStart(i)
    \/ \E i \in 1..Len(tasks) : Get1Response(i)
    \/ \E i \in 1..Len(tasks) : Get2Response(i)
    \/ \E i \in 1..Len(tasks) : NextChunk(i)
    \/ \E i \in 1..Len(tasks) : StreamEnd(i)
    \/ GatherDone
    \/ LoopEnd
    \/ CloseSession
    \/ DriverQuit

\* one run of the program
Spec == Init /\ [][Next]_vars

RerunNext == Next \/ Rerun

\* the program run twice
RerunSpec == Init /\ [][RerunNext]_vars

\* one run in which every browser wait and every HTTP request completes or
\* times out: a step that can be taken is taken
FairSpec == Spec /\ WF_vars(Next)

(***************************************************************************)
(* The sanitizer alone, run on every name of at most MaxNameLen characters.*)
(***************************************************************************)
SanInit ==
    /\ pc = "start"
    /\ run = "first"
    /\ driver = "none"
    /\ session = "none"
    /\ mainRaised = FALSE
    /\ remote = [n |-> 0, mats |-> <<>>]
    /\ courses = 0
    /\ cidx = 0
    /\ disk = EmptyDisk
    /\ examDisk = EmptyDisk
    /\ endDisk = EmptyDisk
    /\ tasks = <<>>
    /\ log = <<>>
    /\ \E raw \in StringsUpTo(MaxNameLen) :
          san = [raw |-> raw, clean |-> <<>>, done |-> FALSE]

\* line 163
SanitizeName ==
    /\ ~san.done
    /\ san' = [san EXCEPT !.clean = Sanitize(san.raw), !.done = TRUE]
    /\ UNCHANGED mainVars

SanNext == SanitizeName

SanSpec == SanInit /\ [][SanNext]_vars


(***************************************************************************)
(* The claims.                                                             *)
(***************************************************************************)
Rows == 1..Len(remote.mats)

\* the final paths of the materials of course c
FinalPaths(c) == {FilePath(c, remote.mats[j]) : j \in Rows}

\* what a whole file holds: the file of before the run, or the whole body
\* served at the url or at the redirect target of a material
WholeData ==
    {OldData} \cup
    UNION {{Body(MaterialUrl(c, j)), Body(Location(MaterialUrl(c, j)))} :
             c \in 1..remote.n, j \in Rows}

\* task i returns in this step
Returns(i) ==
    /\ Len(tasks') = Len(tasks)
    /\ tasks[i].pc # "done"
    /\ tasks'[i].pc = "done"

\* C1: in every state of a course run, the final path of every material holds
\* no file or a whole file that no task has open for writing: never a partly
\* written body.
C1_FinalPathNeverPartial ==
    \A c \in 1..remote.n : \A p \in FinalPaths(c) :
        Exists(disk, p) => /\ disk[p].writers = {}
                           /\ disk[p].data \in WholeData

\* C2: whenever a call of download_file returns False, no file is at its temp
\* path at that moment, and its final path, which held no file when the course
\* was examined, holds none.
C2_FalseLeavesNothing ==
    [][\A i \in 1..Len(tasks) :
          (Returns(i) /\ tasks'[i].result = "False")
          => /\ ~Exists(disk', TempPath(tasks[i].path))
             /\ (~Exists(examDisk, tasks[i].path) => ~Exists(disk', tasks[i].path))]_vars

\* a step of the call failed: an exception was raised, the 302 carried no
\* Location, or the second response was not a 200
StepFailed(t) ==
    \/ t.raised
    \/ t.status1 = 302 /\ ~t.hasLoc
    \/ t.status2 \notin {0, 200}

\* C3: download_file never raises: a call that has ended has returned True or
\* False, and False whenever one of its steps failed.
C3_NeverRaises ==
    \A i \in 1..Len(tasks) :
        /\ tasks[i].result # "Raised"
        /\ tasks[i].pc = "done" =>
              /\ tasks[i].result \in {"True", "False"}
              /\ StepFailed(tasks[i]) => tasks[i].result = "False"

\* C3's case: a call has returned False after an exception past its second
\* response (the open, the stream, a write or the rename), next to a sibling
\* that returned True
C3_Witness ==
    \E i, j \in 1..Len(tasks) :
        /\ tasks[i].pc = "done"
        /\ tasks[i].raised
        /\ tasks[i].status2 = 200
        /\ tasks[i].result = "False"
        /\ tasks[j].result = "True"

\* C4: the tasks of one gather have pairwise different final paths and
\* pairwise different temp paths, and none has the temp path of another as
\* its final path: no two of them write to the same path.
C4_DistinctPaths ==
    \A i, j \in 1..Len(tasks) :
        i # j => /\ tasks[i].path # tasks[j].path
                 /\ TempPath(tasks[i].path) # TempPath(tasks[j].path)
                 /\ tasks[i].path # TempPath(tasks[j].path)

\* the lines the second run logs when it has examined a course
Examined == {n \in 1..Len(log) : log[n].kind = "examined"}

C6_NoIllegalCharacter ==
    san.done => \A n \in 1..Len(san.clean) : san.clean[n] \notin Illegal

\* C7: when main has ended, a driver that was created has been quit and a
\* session that was created has been closed.
C7_ReleasedAtExit ==
    pc = "done" => /\ driver # "open"
                   /\ session # "open"

\* C8: gather returns only when every task has settled, no exception leaves
\* the course, and the summary reports the tasks that returned True out of
\* the tasks dispatched.
C8_SummaryCountsTrue ==
    [][(pc = "gather" /\ pc' # "gather")
       => /\ AllDone
          /\ pc' = "loop"
          /\ ~mainRaised'
          /\ LET line == log'[Len(log')]
                 returnedTrue == {i \in 1..Len(tasks) : tasks[i].result = "True"}
             IN  /\ line.kind = "summary"
                 /\ line.total = Len(tasks)
                 /\ line.success = Cardinality(returnedTrue)
                 /\ line.skipped = Len(remote.mats) - Len(tasks)]_vars

\* C8's case: a course's summary reports one success out of two tasks
C8_Witness ==
    \E n \in 1..Len(log) :
        /\ log[n].kind = "summary"
        /\ log[n].success = 1
        /\ log[n].total = 2

\* C9: a material whose final path held a file when the course was examined
\* gets no task, and that file is the same while the course's tasks run.
C9_ExistingUntouched ==
    pc = "gather" =>
        \A j \in Rows :
            LET p == FilePath(cidx, remote.mats[j])
            IN  Exists(examDisk, p)
                => /\ \A i \in 1..Len(tasks) : tasks[i].mat # j
                   /\ Exists(disk, p)
                   /\ disk[p] = examDisk[p]

\* C10: a call whose first response was a 302 with a Location, whose second
\* response was a 200 and in which nothing raised returns True, and when it
\* returns its final path holds the body served at the Location and its temp
\* path holds no file.
C10_RedirectedBodyWritten ==
    [][\A i \in 1..Len(tasks) :
          (/\ Returns(i)
           /\ tasks[i].actual = Location(tasks[i].url)
           /\ tasks'[i].status2 = 200
           /\ ~tasks'[i].raised)
          => /\ tasks'[i].result = "True"
             /\ Exists(disk', tasks[i].path)
             /\ disk'[tasks[i].path].data = Body(Location(tasks[i].url))
             /\ ~Exists(disk', TempPath(tasks[i].path))]_vars

\* task i takes a step
Moves(i) ==
    /\ Len(tasks') = Len(tasks)
    /\ tasks'[i] # tasks[i]

\* task i has no file open for writing on the disk d
NoHandle(d, i) == \A p \in DOMAIN d : i \notin d[p].writers

\* C11: a call whose first response is a 302 without a Location returns False
\* in that step, with no second request made and no file opened, and neither
\* that step nor the call's step before it changes any file.
C11_NoLocationNoWrite ==
    [][\A i \in 1..Len(tasks) :
          /\ (/\ Moves(i)
              /\ tasks[i].pc = "get1"
              /\ tasks'[i].status1 = 302
              /\ ~tasks'[i].hasLoc)
             => /\ Returns(i)
                /\ tasks'[i].result = "False"
                /\ tasks'[i].actual = NoUrl
                /\ tasks'[i].status2 = 0
                /\ NoHandle(disk', i)
                /\ disk' = disk
          /\ (Moves(i) /\ tasks'[i].pc = "get1") => disk' = disk]_vars

\* C11's case: the only call of a gather has returned False on a 302 without
\* a Location, and the disk is as it was when the course was examined
C11_Witness ==
    /\ Len(tasks) = 1
    /\ tasks[1].pc = "done"
    /\ tasks[1].status1 = 302
    /\ ~tasks[1].hasLoc
    /\ tasks[1].result = "False"
    /\ disk = examDisk

\* process_course has been entered for course c: it has logged what became
\* of the course
Processed(c) ==
    \E n \in 1..Len(log) :
        /\ log[n].course = c
        /\ log[n].kind \in {"course_error", "materials_error", "examined"}

\* C12: no exception of a course leaves the course loop, and when the loop
\* has ended every course of the enumeration has been processed, whatever
\* failed in the courses before it.
C12_LaterCoursesProcessed ==
    /\ pc \in {"loop", "sleep", "gather"} => ~mainRaised
    /\ pc \in {"loop", "sleep", "gather"} => \A c \in 1..(cidx - 1) : Processed(c)
    /\ pc \in {"finally", "quit", "done"} => \A c \in 1..courses : Processed(c)

\* C12's case: the first course failed and the second was examined
C12_Witness ==
    /\ pc = "done"
    /\ \E n \in 1..Len(log) :
          log[n].course = 1 /\ log[n].kind \in {"course_error", "materials_error"}
    /\ \E n \in 1..Len(log) :
          log[n].course = 2 /\ log[n].kind = "examined"

\* login_portal has logged its error
LoginFailed == \E n \in 1..Len(log) : log[n].kind = "login_error"

\* C13: when login has failed, main has returned without raising, no session
\* exists, no course was enumerated or processed and no task was created.
C13_LoginFailureClean ==
    LoginFailed => /\ pc = "done"
                   /\ ~mainRaised
                   /\ session = "none"
                   /\ courses = 0
                   /\ cidx = 0
                   /\ tasks = <<>>
                   /\ Len(log) = 1

\* C14: every task in flight belongs to the course the loop is at, tasks
\* exist only during that course's gather, and the loop moves to the next
\* course, one further in the enumeration, only when no task is left.
C14_OneCourseAtATime ==
    [][/\ \A i \in 1..Len(tasks') : tasks'[i].url[2] = cidx'
       /\ tasks' # <<>> => pc' = "gather"
       /\ cidx' # cidx => /\ cidx' = cidx + 1
                          /\ tasks = <<>>
                          /\ tasks' = <<>>]_vars

\* C14's case: tasks of the second course are in flight after the gather of
\* the first course has returned
C14_Witness ==
    /\ pc = "gather"
    /\ cidx = 2
    /\ \E i \in 1..Len(tasks) : tasks[i].pc \in {"get1", "get2", "stream"}
    /\ \E n \in 1..Len(log) : log[n].course = 1 /\ log[n].kind = "summary"

\* C15: the summary of a course is logged only when every task of the
\* gather has settled with True or False, and a step of one task, its
\* failure included, leaves every sibling as it is.
C15_SummaryAfterAllSettled ==
    [][/\ (Len(log') > Len(log) /\ log'[Len(log')].kind = "summary")
          => /\ AllDone
             /\ \A i \in 1..Len(tasks) : tasks[i].result \in {"True", "False"}
             /\ log'[Len(log')].total = Len(tasks)
       /\ \A i \in 1..Len(tasks) :
             Moves(i) => \A j \in 1..Len(tasks) : j # i => tasks'[j] = tasks[j]]_vars

\* C15's case: every task of a gather has settled, one by an exception
\* before its first response and a sibling with True
C15_Witness ==
    /\ pc = "gather"
    /\ AllDone
    /\ \E i, j \in 1..Len(tasks) :
          /\ tasks[i].raised
          /\ tasks[i].status2 = 0
          /\ tasks[i].result = "False"
          /\ tasks[j].result = "True"

\* the steps of the outer flow that call the driver: webdriver.Chrome and
\* the login, the course list, driver.get, the wait and execute_script,
\* driver.quit
DriverOp == Login \/ GetCourseSections \/ ProcessCourse \/ Examine \/ DriverQuit

\* a step of download_file: a task moves
TaskStep == \E i \in 1..Len(tasks) : Moves(i)

\* C16: while a download task exists no step calls the driver, and a step of
\* a download task leaves the driver as it is, open.
C16_DriverOnlyInOuterFlow ==
    [][/\ tasks # <<>> => ~DriverOp
       /\ TaskStep => /\ driver' = driver
                      /\ driver = "open"]_vars

\* C16's case: the driver has loaded the page of the second course after a
\* download of the first course
C16_Witness ==
    /\ pc = "sleep"
    /\ cidx = 2
    /\ tasks = <<>>
    /\ \E n \in 1..Len(log) :
          log[n].course = 1 /\ log[n].kind = "summary" /\ log[n].success = 1

\* the place of a position of main in NotStarted, LoggedIn, SessionActive,
\* Processing, Closed (the finally block, driver.quit, the end)
Rank(p) ==
    CASE p = "start" -> 0
      [] p = "logged_in" -> 1
      [] p = "session_active" -> 2
      [] p \in {"loop", "sleep", "gather"} -> 3
      [] p = "finally" -> 4
      [] p = "quit" -> 5
      [] OTHER -> 6

\* C17: main never goes back to an earlier state and goes on to the next
\* state or ends in Closed; the session is built once, from the login, and
\* closed once, in the finally block; it is open while courses are
\* enumerated and processed, and every step of a download is taken while it
\* is open.
C17_OrderedStates ==
    [][/\ Rank(pc') >= Rank(pc)
       /\ Rank(pc') > Rank(pc) => (Rank(pc') = Rank(pc) + 1 \/ Rank(pc') >= 4)
       /\ session' # session
             => \/ /\ pc = "logged_in"
                   /\ session = "none"
                   /\ session' = "open"
                \/ /\ pc = "finally"
                   /\ session = "open"
                   /\ session' \in {"closed", "close_failed"}
       /\ Rank(pc') \in {2, 3} => session' = "open"
       /\ TaskStep => session = "open" /\ session' = "open"]_vars

\* C17's case: a run has gone through every state, with a download
C17_Witness ==
    /\ pc = "done"
    /\ session = "closed"
    /\ driver = "quit"
    /\ \E n \in 1..Len(log) : log[n].kind = "summary" /\ log[n].success >= 1

\* C18: a first response that is no 302 without a Location does not end the
\* call: the second GET is sent, to the original url unless a 302 named a
\* Location; and a call that made its second request to the original url
\* returns True exactly when the second response was a 200 and nothing raised.
C18_OtherStatusProceeds ==
    [][\A i \in 1..Len(tasks) :
          /\ (/\ Moves(i)
              /\ tasks[i].pc = "get1"
              /\ ~tasks'[i].raised
              /\ ~(tasks'[i].status1 = 302 /\ ~tasks'[i].hasLoc))
             => /\ tasks'[i].pc = "get2"
                /\ tasks'[i].result = "none"
                /\ tasks'[i].actual = IF tasks'[i].status1 = 302
                                      THEN Location(tasks[i].url)
                                      ELSE tasks[i].url
          /\ (Returns(i) /\ tasks[i].actual = tasks[i].url)
             => (tasks'[i].result = "True"
                    <=> (tasks'[i].status2 = 200 /\ ~tasks'[i].raised))]_vars

\* C18's case: the second GET is in flight to the original url after a first
\* response with an error status
C18_Witness ==
    \E i \in 1..Len(tasks) :
        /\ tasks[i].pc = "get2"
        /\ tasks[i].status1 \notin {200, 302}
        /\ tasks[i].actual = tasks[i].url

\* no other task of the gather writes to the final path of task i
OwnFinalPath(i) ==
    \A j \in 1..Len(tasks) :
        j # i => /\ tasks[j].path # tasks[i].path
                 /\ TempPath(tasks[j].path) # tasks[i].path

\* C19: a call whose second response is not a 200 returns False in that
\* step without having opened a file, and neither that step nor the call's
\* steps before it change any file; its final path, of which no other task
\* writes, holds no file as it held none before the call.
C19_Non200NoWrite ==
    [][\A i \in 1..Len(tasks) :
          /\ (/\ Moves(i)
              /\ tasks[i].pc = "get2"
              /\ tasks'[i].status2 \notin {0, 200})
             => /\ Returns(i)
                /\ tasks'[i].result = "False"
                /\ NoHandle(disk', i)
                /\ disk' = disk
                /\ OwnFinalPath(i) => ~Exists(disk', tasks[i].path)
          /\ (Moves(i) /\ tasks'[i].pc \in {"get1", "get2"}) => disk' = disk]_vars

\* C19's case: the only call of a gather has returned False on a second
\* response that was not a 200, and the disk is as it was when the course
\* was examined
C19_Witness ==
    /\ Len(tasks) = 1
    /\ tasks[1].pc = "done"
    /\ tasks[1].status2 \notin {0, 200}
    /\ tasks[1].result = "False"
    /\ disk = examDisk

\* Closed: main has ended with neither the driver nor the session left open
Closed ==
    /\ pc = "done"
    /\ driver # "open"
    /\ session # "open"

\* C20: every run in which every wait and every request completes ends in
\* Closed.
C20_TerminatesClosed == <>Closed

====
